---- MODULE Spec2Model ----
(***************************************************************************)
(* YAMLValidator of src/yaml_validator.py (lines 15-90): validate_content, *)
(* _validate_structure, _check_indentation and get_report.                 *)
(*                                                                         *)
(* Texts are sequences of one-character strings.  Python values (parsed    *)
(* nodes, mapping keys, the path argument) are tagged records.  A message  *)
(* appended to errors or warnings is kept as the f-string that built it:   *)
(* its template (kind) and its already formatted arguments; Render gives   *)
(* the text.  The source's Japanese literals are written in ASCII.         *)
(***************************************************************************)
EXTENDS Integers, Sequences, FiniteSets, TLC

VARIABLES errors, warnings, content, ret, op, stale

vars == <<errors, warnings, content, ret, op, stale>>

(* ------------------------------ bounds -------------------------------- *)

MaxNodes == 4

MaxLines == 3

MaxIndent == 2

MaxErrLine == 1

ReuseNodes == 2

ReuseLines == 2

MaxAcc == 2

(* --------------------------- Python values ----------------------------- *)

StrV(s) == [ty |-> "str", n |-> 0, s |-> s, keys |-> <<>>, items |-> <<>>]

IntV(n) == [ty |-> "int", n |-> n, s |-> "", keys |-> <<>>, items |-> <<>>]

BoolV(b) == [ty |-> "bool", n |-> IF b THEN 1 ELSE 0, s |-> "", keys |-> <<>>, items |-> <<>>]

NoneV == [ty |-> "none", n |-> 0, s |-> "", keys |-> <<>>, items |-> <<>>]

DictV(ks, vs) == [ty |-> "dict", n |-> 0, s |-> "", keys |-> ks, items |-> vs]

ListV(vs) == [ty |-> "list", n |-> 0, s |-> "", keys |-> <<>>, items |-> vs]

\* str(v), as an f-string field formats a scalar
PyStr(v) ==
  CASE v.ty = "str" -> v.s
    [] v.ty = "int" -> ToString(v.n)
    [] v.ty = "bool" -> IF v.n = 1 THEN "True" ELSE "False"
    [] v.ty = "none" -> "None"
    [] OTHER -> "?"

\* bool(v): the truth value Python's `if path` tests
Truthy(v) ==
  CASE v.ty = "str" -> v.s # ""
    [] v.ty = "int" -> v.n # 0
    [] v.ty = "bool" -> v.n # 0
    [] v.ty = "none" -> FALSE
    [] OTHER -> Len(v.items) > 0

\* a == b on mapping keys (an int and a bool of the same value are one key)
PyEq(a, b) ==
  IF a.ty \in {"int", "bool"} /\ b.ty \in {"int", "bool"}
  THEN a.n = b.n
  ELSE a = b

(* ------------------------------ messages ------------------------------- *)

Msg(kind, key, path, line, text) ==
  [kind |-> kind, key |-> key, path |-> path, line |-> line, text |-> text]

\* the warning of line 28 (empty YAML document)
EmptyDocumentWarning == Msg("empty_document", "", "", 0, "")

\* a variant that shows the parser's 0-based line as it is
SyntaxErrorEntryOffByOne(e) == Msg("syntax_error", "", "", e.line, e.problem)

\* the entry of line 37: (line {e.problem_mark.line + 1}): {e.problem}
SyntaxErrorEntry(e) == Msg("syntax_error", "", "", e.line + 1, e.problem)

\* the entry of line 40: {str(e)}
ParseErrorEntry(e) == Msg("parse_error", "", "", 0, e.problem)

\* the warning of line 47: key '{key}' is not a string ({path})
KeyNotStringWarning(key, path) == Msg("key_not_string", PyStr(key), PyStr(path), 0, "")

\* the warning of line 50: the value of key '{key}' is empty ({path})
ValueEmptyWarning(key, path) == Msg("value_empty", PyStr(key), PyStr(path), 0, "")

\* the warning of line 71: the indentation of line {i} is inconsistent
IndentationWarning(i) == Msg("indentation", "", "", i, "")

\* the text of a message: its template with the arguments filled in
Render(m) ==
  CASE m.kind = "empty_document" -> "Warning: empty YAML document"
    [] m.kind = "syntax_error" ->
         "YAML syntax error (line " \o ToString(m.line) \o "): " \o m.text
    [] m.kind = "parse_error" -> "YAML parse error: " \o m.text
    [] m.kind = "key_not_string" ->
         "Warning: key '" \o m.key \o "' is not a string (" \o m.path \o ")"
    [] m.kind = "value_empty" ->
         "Warning: value for key '" \o m.key \o "' is empty (" \o m.path \o ")"
    [] m.kind = "indentation" ->
         "Warning: inconsistent indentation at line " \o ToString(m.line)
    [] OTHER -> m.text

ErrorsHeader == "Errors:"

WarningsHeader == "Warnings:"

SuccessMessage == "Validation succeeded - no issues found"

(* ------------------------------ __init__ ------------------------------- *)

NewValidator == [errors |-> <<>>, warnings |-> <<>>]

AppendWarning(self, m) == [self EXCEPT !.warnings = Append(@, m)]

AppendError(self, m) == [self EXCEPT !.errors = Append(@, m)]

(* ------------------------- _validate_structure ------------------------- *)

\* new_path = f"{path}.{key}" if path else key
NewPath(path, key) ==
  IF Truthy(path) THEN StrV(PyStr(path) \o "." \o PyStr(key)) ELSE key

\* new_path = f"{path}[{i}]"
IndexPath(path, i) == StrV(PyStr(path) \o "[" \o ToString(i) \o "]")

\* a variant whose second check is an elif of the first
CheckEntryElif(self, key, value, path) ==
  IF key.ty # "str" THEN AppendWarning(self, KeyNotStringWarning(key, path))
  ELSE IF value.ty = "none" THEN AppendWarning(self, ValueEmptyWarning(key, path))
  ELSE self

\* the two checks made on one key/value pair, before the recursion
CheckEntry(self, key, value, path) ==
  LET s1 == IF key.ty # "str"
            THEN AppendWarning(self, KeyNotStringWarning(key, path))
            ELSE self
  IN IF value.ty = "none"
     THEN AppendWarning(s1, ValueEmptyWarning(key, path))
     ELSE s1

RECURSIVE ValidateStructure(_, _, _)
RECURSIVE DictItems(_, _, _, _)
RECURSIVE ListItems(_, _, _, _)

\* for key, value in data.items(): ... (from the i-th pair on)
DictItems(self, data, path, i) ==
  IF i > Len(data.keys) THEN self
  ELSE LET key == data.keys[i]
           value == data.items[i]
           s2 == CheckEntry(self, key, value, path)
           s3 == ValidateStructure(s2, value, NewPath(path, key))
       IN DictItems(s3, data, path, i + 1)

\* for i, item in enumerate(data): ... (from the i-th element on, i 1-based here)
ListItems(self, data, path, i) ==
  IF i > Len(data.items) THEN self
  ELSE ListItems(ValidateStructure(self, data.items[i], IndexPath(path, i - 1)),
                 data, path, i + 1)

\* _validate_structure(self, data, path)
ValidateStructure(self, data, path) ==
  IF data.ty = "dict" THEN DictItems(self, data, path, 1)
  ELSE IF data.ty = "list" THEN ListItems(self, data, path, 1)
  ELSE self

(* -------------------------- _check_indentation ------------------------- *)

\* the characters str.strip() and str.lstrip() remove, among those of the texts
IsSpace(c) == c \in {" ", "\t", "\r"}

RECURSIVE Split(_)
\* content.split('\n')
Split(s) ==
  IF \A i \in 1..Len(s) : s[i] # "\n" THEN <<s>>
  ELSE LET k == CHOOSE i \in 1..Len(s) :
                  s[i] = "\n" /\ \A j \in 1..(i - 1) : s[j] # "\n"
       IN <<SubSeq(s, 1, k - 1)>> \o Split(SubSeq(s, k + 1, Len(s)))

RECURSIVE LStrip(_)
LStrip(s) == IF s # <<>> /\ IsSpace(Head(s)) THEN LStrip(Tail(s)) ELSE s

RECURSIVE RStrip(_)
RStrip(s) ==
  IF s # <<>> /\ IsSpace(s[Len(s)]) THEN RStrip(SubSeq(s, 1, Len(s) - 1)) ELSE s

Strip(s) == RStrip(LStrip(s))

StartsWith(s, c) == Len(s) >= 1 /\ s[1] = c

\* spaces_pattern = None
SpacesPatternNone == [isNone |-> TRUE, v |-> 0]

\* a variant that takes every indented line's indentation as the new unit
IndentLineLastSeen(self, line, i, spaces_pattern) ==
  IF Strip(line) # <<>> /\ ~StartsWith(Strip(line), "#")
  THEN LET indent == Len(line) - Len(LStrip(line))
       IN IF indent > 0
          THEN IF spaces_pattern.isNone
               THEN <<self, [isNone |-> FALSE, v |-> indent]>>
               ELSE IF indent % spaces_pattern.v # 0
                    THEN <<AppendWarning(self, IndentationWarning(i)),
                           [isNone |-> FALSE, v |-> indent]>>
                    ELSE <<self, [isNone |-> FALSE, v |-> indent]>>
          ELSE <<self, spaces_pattern>>
  ELSE <<self, spaces_pattern>>

\* the body of the loop for one line: <<self, spaces_pattern>> after it
IndentLine(self, line, i, spaces_pattern) ==
  IF Strip(line) # <<>> /\ ~StartsWith(Strip(line), "#")
  THEN LET indent == Len(line) - Len(LStrip(line))
       IN IF indent > 0
          THEN IF spaces_pattern.isNone
               THEN <<self, [isNone |-> FALSE, v |-> indent]>>
               ELSE IF indent % spaces_pattern.v # 0
                    THEN <<AppendWarning(self, IndentationWarning(i)), spaces_pattern>>
                    ELSE <<self, spaces_pattern>>
          ELSE <<self, spaces_pattern>>
  ELSE <<self, spaces_pattern>>

RECURSIVE IndentLoop(_, _, _, _)
\* for i, line in enumerate(lines, 1): ... (from line i on)
IndentLoop(self, lines, i, spaces_pattern) ==
  IF i > Len(lines) THEN self
  ELSE LET r == IndentLine(self, lines[i], i, spaces_pattern)
       IN IndentLoop(r[1], lines, i + 1, r[2])

\* _check_indentation(self, content)
CheckIndentation(self, text) == IndentLoop(self, Split(text), 1, SpacesPatternNone)

(* --------------------------- validate_content -------------------------- *)

\* A document: its text and what yaml.safe_load(text) gives for it, which is
\* the parser's answer and no code of this file.  parse.kind is "ok" (data is
\* the tree), "marked" (a yaml.MarkedYAMLError with problem_mark.line and
\* problem), "yamlerror" (another yaml.YAMLError, problem is str(e)) or
\* "other": an exception that is no yaml.YAMLError, which safe_load's
\* constructors raise (ValueError for the date 2001-13-40 or the integer 0x_).
OkParse(data) == [kind |-> "ok", data |-> data, line |-> 0, problem |-> ""]

MarkedParse(line, problem) ==
  [kind |-> "marked", data |-> NoneV, line |-> line, problem |-> problem]

YamlErrorParse(problem) ==
  [kind |-> "yamlerror", data |-> NoneV, line |-> 0, problem |-> problem]

OtherParse == [kind |-> "other", data |-> NoneV, line |-> 0, problem |-> ""]

Doc(text, parse) == [text |-> text, parse |-> parse]

\* data = yaml.safe_load(content)
SafeLoad(doc) == doc.parse

\* what a call gives back to its caller
NoReturn == [kind |-> "none", b |-> FALSE, s |-> ""]

ReturnBool(b) == [kind |-> "bool", b |-> b, s |-> ""]

ReturnStr(s) == [kind |-> "str", b |-> FALSE, s |-> s]

Raised == [kind |-> "raise", b |-> FALSE, s |-> ""]

\* a variant that keeps what the accumulators hold
ResetKeep(self) == self

\* self.errors = []; self.warnings = []
Reset(self) == [errors |-> <<>>, warnings |-> <<>>]

\* return len(self.errors) == 0
ScanResult(self) == Len(self.errors) = 0

\* a variant that runs the indentation scanner on an empty document too
OnEmptyDocumentScanned(self, doc) ==
  [self |-> CheckIndentation(AppendWarning(self, EmptyDocumentWarning), doc.text),
   ret |-> ReturnBool(TRUE)]

\* if data is None: append the warning; return True
OnEmptyDocument(self, doc) ==
  [self |-> AppendWarning(self, EmptyDocumentWarning), ret |-> ReturnBool(TRUE)]

\* a variant that runs the indentation scanner first
OnParsedIndentFirst(self, data, doc) ==
  LET s1 == CheckIndentation(self, doc.text)
      s2 == ValidateStructure(s1, data, StrV(""))
  IN [self |-> s2, ret |-> ReturnBool(ScanResult(s2))]

\* self._validate_structure(data); self._check_indentation(content); return ...
OnParsed(self, data, doc) ==
  LET s1 == ValidateStructure(self, data, StrV(""))
      s2 == CheckIndentation(s1, doc.text)
  IN [self |-> s2, ret |-> ReturnBool(ScanResult(s2))]

\* except yaml.MarkedYAMLError as e
OnMarkedYAMLError(self, e) ==
  [self |-> AppendError(self, SyntaxErrorEntry(e)), ret |-> ReturnBool(FALSE)]

\* except yaml.YAMLError as e
OnYAMLError(self, e) ==
  [self |-> AppendError(self, ParseErrorEntry(e)), ret |-> ReturnBool(FALSE)]

\* validate_content(self, content): the validator and the outcome after the call
ValidateContent(self, doc) ==
  LET s0 == Reset(self)
      p == SafeLoad(doc)
  IN CASE p.kind = "ok" ->
            IF p.data.ty = "none" THEN OnEmptyDocument(s0, doc)
            ELSE OnParsed(s0, p.data, doc)
       [] p.kind = "marked" -> OnMarkedYAMLError(s0, p)
       [] p.kind = "yamlerror" -> OnYAMLError(s0, p)
       [] OTHER -> [self |-> s0, ret |-> Raised]

(* ------------------------------ get_report ----------------------------- *)

RECURSIVE Bullets(_, _)
\* for error in self.errors: report.append(f"- {error}")
Bullets(report, msgs) ==
  IF msgs = <<>> THEN report
  ELSE Bullets(Append(report, "- " \o Render(Head(msgs))), Tail(msgs))

RECURSIVE JoinFrom(_, _, _)
\* "\n".join(report)
JoinFrom(acc, report, i) ==
  IF i > Len(report) THEN acc
  ELSE JoinFrom(acc \o "\n" \o report[i], report, i + 1)

Join(report) == IF report = <<>> THEN "" ELSE JoinFrom(report[1], report, 2)

\* a variant that puts the blank line before the warnings block in any case
GetReportAlwaysSeparated(self) ==
  LET r1 == IF self.errors # <<>>
            THEN Bullets(<<ErrorsHeader>>, self.errors)
            ELSE <<>>
      r2 == IF self.warnings # <<>>
            THEN Bullets(Append(Append(r1, ""), WarningsHeader), self.warnings)
            ELSE r1
      r3 == IF r2 = <<>> THEN <<SuccessMessage>> ELSE r2
  IN Join(r3)

\* get_report(self)
GetReport(self) ==
  LET r1 == IF self.errors # <<>>
            THEN Bullets(<<ErrorsHeader>>, self.errors)
            ELSE <<>>
      r2 == IF self.warnings # <<>>
            THEN Bullets(Append(IF r1 # <<>> THEN Append(r1, "") ELSE r1,
                                WarningsHeader),
                         self.warnings)
            ELSE r1
      r3 == IF r2 = <<>> THEN <<SuccessMessage>> ELSE r2
  IN Join(r3)

(* ------------------------------- inputs -------------------------------- *)

\* mapping keys: a string, the empty string, an integer, a boolean, null
Keys == {StrV("a"), StrV(""), IntV(0), BoolV(FALSE), NoneV}

\* the values with no children: a string and null
Leaves == {StrV("x"), NoneV}

\* the key sequences a mapping of k entries can have: pairwise different keys
KeySeqs(k) ==
  {ks \in [1..k -> Keys] :
     \A i \in 1..k : \A j \in 1..k : i < j => ~PyEq(ks[i], ks[j])}

\* the trees whose root has the children f: a leaf when there are none, else
\* the sequence of them and every mapping of them
TreesOver(f) ==
  IF f = <<>> THEN Leaves
  ELSE {ListV(f)} \cup {DictV(ks, f) : ks \in KeySeqs(Len(f))}

\* tbl[k] holds the trees of exactly k nodes and the sequences of trees of k
\* nodes in all; AddSize adds the entry of the next size
AddSize(tbl) ==
  LET n == Len(tbl) + 1
      forestsAt(m) == IF m = 0 THEN {<<>>} ELSE tbl[m].forests
      trees == UNION {TreesOver(f) : f \in forestsAt(n - 1)}
      treesAt(k) == IF k = n THEN trees ELSE tbl[k].trees
      forests ==
        UNION {{<<t>> \o f : t \in treesAt(k), f \in forestsAt(n - k)} : k \in 1..n}
  IN Append(tbl, [trees |-> trees, forests |-> forests])

RECURSIVE TreeTable(_)
TreeTable(n) == IF n = 0 THEN <<>> ELSE AddSize(TreeTable(n - 1))

\* the sequences of trees of at most n nodes in all
ForestsUpTo(n) ==
  LET tbl == TreeTable(n) IN {<<>>} \cup UNION {tbl[k].forests : k \in 1..n}

\* the trees of at most n nodes
TreesUpTo(n) == UNION {TreesOver(f) : f \in ForestsUpTo(n - 1)}

Problems == {"mapping values are not allowed here"}

\* the ways safe_load fails
FailedParses ==
  {MarkedParse(l, p) : l \in 0..MaxErrLine, p \in Problems}
  \cup {YamlErrorParse(p) : p \in Problems}
  \cup {OtherParse}

ParsesUpTo(n) == {OkParse(t) : t \in TreesUpTo(n)} \cup FailedParses

\* what follows a line's indentation: nothing, a comment, a key
Bodies == {<<>>, <<"#">>, <<"a">>}

Spaces(n) == [i \in 1..n |-> " "]

LineSet(bodies) == {Spaces(i) \o b : i \in 0..MaxIndent, b \in bodies}

RECURSIVE JoinLines(_)
JoinLines(ls) ==
  IF ls = <<>> THEN <<>>
  ELSE IF Len(ls) = 1 THEN ls[1]
  ELSE ls[1] \o <<"\n">> \o JoinLines(Tail(ls))

TextsUpTo(n, bodies) ==
  {JoinLines(ls) : ls \in UNION {[1..k -> LineSet(bodies)] : k \in 0..n}}

\* a text whose third line is not indented by a multiple of the second
\* line's two spaces
SampleText == JoinLines(<<<<"a">>, <<" ", " ", "a">>, <<" ", "a">>>>)

\* a scalar, an empty mapping, and a mapping whose one entry has a non-string
\* key and no value
SampleParses ==
  {OkParse(StrV("x")), OkParse(DictV(<<>>, <<>>)),
   OkParse(DictV(<<IntV(0)>>, <<NoneV>>))}

\* the documents of trees up to n nodes and texts up to m lines: every parse
\* with the sample text, every text with each of the parses given
DocsOf(n, m, bodies, parses) ==
  {Doc(SampleText, p) : p \in ParsesUpTo(n)}
  \cup {Doc(t, p) : t \in TextsUpTo(m, bodies), p \in parses}

ReuseDocs ==
  DocsOf(ReuseNodes, ReuseLines, {<<"a">>},
         {OkParse(StrV("x")), OkParse(DictV(<<IntV(0)>>, <<NoneV>>))})

SampleMessages ==
  {EmptyDocumentWarning, IndentationWarning(2),
   SyntaxErrorEntry(MarkedParse(0, "mapping values are not allowed here"))}

Findings == UNION {[1..k -> SampleMessages] : k \in 0..MaxAcc}

(* ------------------------------- actions ------------------------------- *)

\* content before the first call of validate_content: no document
NoDoc == Doc(<<>>, [kind |-> "none", data |-> NoneV, line |-> 0, problem |-> ""])

\* validator = YAMLValidator()
Init ==
  /\ errors = NewValidator.errors
  /\ warnings = NewValidator.warnings
  /\ content = NoDoc
  /\ ret = NoReturn
  /\ op = "init"
  /\ stale = FALSE

\* validator.validate_content(doc); stale records whether the call found
\* entries of an earlier call in the accumulators
ValidateContentCall(doc) ==
  LET r == ValidateContent([errors |-> errors, warnings |-> warnings], doc)
  IN /\ errors' = r.self.errors
     /\ warnings' = r.self.warnings
     /\ content' = doc
     /\ ret' = r.ret
     /\ op' = "validate_content"
     /\ stale' = (errors # <<>> \/ warnings # <<>>)

\* validator.get_report()
GetReportCall ==
  /\ ret' = ReturnStr(GetReport([errors |-> errors, warnings |-> warnings]))
  /\ op' = "get_report"
  /\ UNCHANGED <<errors, warnings, content, stale>>

Validate == \E doc \in ReuseDocs : ValidateContentCall(doc)

Next == Validate \/ GetReportCall

\* one validator reused for any sequence of calls, on the documents ReuseDocs
Spec == Init /\ [][Next]_vars

\* the first call of validate_content on a new validator, on every document of
\* DocsOf(MaxNodes, MaxLines, Bodies, SampleParses)
ValidateOnce ==
  /\ op = "init"
  /\ \/ \E f \in ForestsUpTo(MaxNodes - 1) : \E t \in TreesOver(f) :
          ValidateContentCall(Doc(SampleText, OkParse(t)))
     \/ \E p \in FailedParses : ValidateContentCall(Doc(SampleText, p))
     \/ \E t \in TextsUpTo(MaxLines, Bodies) : \E p \in SampleParses :
          ValidateContentCall(Doc(t, p))

NextOnce == ValidateOnce \/ GetReportCall

SpecOnce == Init /\ [][NextOnce]_vars

\* get_report on every pair of accumulators
InitReport ==
  /\ errors \in Findings
  /\ warnings \in Findings
  /\ content = NoDoc
  /\ ret = NoReturn
  /\ op = "init"
  /\ stale = FALSE

NextReport == GetReportCall

SpecReport == InitReport /\ [][NextReport]_vars

(* ------------------------------- claims -------------------------------- *)

\* a call of validate_content has been made, and content is its argument
Validated == content # NoDoc

\* the last call parsed its document to a tree that is not None
Scanned == Validated /\ content.parse.kind = "ok" /\ content.parse.data.ty # "none"

StructuralKinds == {"key_not_string", "value_empty"}

\* the entries of a sequence whose kind is in kinds, in order
RECURSIVE OfKinds(_, _)
OfKinds(msgs, kinds) ==
  IF msgs = <<>> THEN <<>>
  ELSE IF Head(msgs).kind \in kinds
       THEN <<Head(msgs)>> \o OfKinds(Tail(msgs), kinds)
       ELSE OfKinds(Tail(msgs), kinds)

\* C1: validate_content returns true exactly when errors is empty when the
\* call finishes, and false exactly when it is not; warnings play no part.
\* A call that raises returns neither, with errors empty.
C1_ReturnsEmptiness ==
  op = "validate_content" =>
    /\ (ret = ReturnBool(TRUE)) <=> (errors = <<>>)
    /\ (ret = ReturnBool(FALSE)) <=> (errors # <<>>)

\* C3: validate_content returns a boolean for every document; when the parser
\* failed, the failure is an entry of errors.
C3_NeverRaises ==
  op = "validate_content" =>
    /\ ret.kind = "bool"
    /\ content.parse.kind # "ok" => errors # <<>>

\* what a new validator holds and returns after validate_content(doc)
Fresh(doc) == ValidateContent(NewValidator, doc)

\* C2: on a reused validator errors, warnings and the report are those a new
\* validator gives for the content of the last validate_content call, however
\* many calls of validate_content and get_report came before.
C2_ReusedEqualsFresh ==
  Validated =>
    /\ errors = Fresh(content).self.errors
    /\ warnings = Fresh(content).self.warnings
    /\ op = "get_report" => ret = ReturnStr(GetReport(Fresh(content).self))

\* a call that found entries of an earlier call and left none, then a report
C2_Witness ==
  /\ stale
  /\ op = "get_report"
  /\ content.parse.kind = "ok"
  /\ errors = <<>>
  /\ warnings = <<>>
  /\ ret = ReturnStr(SuccessMessage)

\* C4: on a position-aware syntax error validate_content returns false, errors
\* holds one entry, which embeds the parser's line plus one and its problem,
\* and warnings is empty.
C4_SyntaxError ==
  (Validated /\ content.parse.kind = "marked") =>
    /\ op = "validate_content" => ret = ReturnBool(FALSE)
    /\ Len(errors) = 1
    /\ errors[1].kind = "syntax_error"
    /\ errors[1].line = content.parse.line + 1
    /\ errors[1].text = content.parse.problem
    /\ Render(errors[1]) =
         "YAML syntax error (line " \o ToString(content.parse.line + 1) \o "): "
           \o content.parse.problem
    /\ warnings = <<>>

\* a syntax error on the parser's line 1, in a text whose indentation the
\* scanner would have warned about
C4_Witness ==
  /\ op = "validate_content"
  /\ content.parse.kind = "marked"
  /\ content.parse.line = 1
  /\ content.text = SampleText
  /\ Len(errors) = 1
  /\ errors[1].line = 2

\* C5: a document that parses to None gives true, no error and the
\* empty-document warning alone, whatever its text.
C5_EmptyDocument ==
  (Validated /\ content.parse.kind = "ok" /\ content.parse.data.ty = "none") =>
    /\ op = "validate_content" => ret = ReturnBool(TRUE)
    /\ errors = <<>>
    /\ warnings = <<EmptyDocumentWarning>>

\* a document that parses to None and whose third line is indented by one
\* space after a line indented by two
C5_Witness ==
  /\ op = "validate_content"
  /\ content.parse.kind = "ok"
  /\ content.parse.data.ty = "none"
  /\ content.text = SampleText
  /\ Len(warnings) = 1

\* the lines of the report, as section 4.4 lists them
ReportBlock(header, msgs) ==
  <<header>> \o [i \in 1..Len(msgs) |-> "- " \o Render(msgs[i])]

ReportLines(e, w) ==
  IF e = <<>> /\ w = <<>> THEN <<SuccessMessage>>
  ELSE (IF e # <<>> THEN ReportBlock(ErrorsHeader, e) ELSE <<>>)
       \o (IF e # <<>> /\ w # <<>> THEN <<"">> ELSE <<>>)
       \o (IF w # <<>> THEN ReportBlock(WarningsHeader, w) ELSE <<>>)

RECURSIVE NewlineSeparated(_)
NewlineSeparated(lines) ==
  IF Len(lines) = 1 THEN lines[1]
  ELSE lines[1] \o "\n" \o NewlineSeparated(Tail(lines))

\* C6: get_report returns the errors block, then the warnings block, a blank
\* line between them exactly when both are there, the success message exactly
\* when neither is, the lines separated by newlines and no newline at the end.
C6_ReportFormat ==
  op = "get_report" => ret = ReturnStr(NewlineSeparated(ReportLines(errors, warnings)))

\* a report of two errors and two warnings
C6_Witness ==
  /\ op = "get_report"
  /\ Len(errors) = 2
  /\ Len(warnings) = 2
  /\ errors[1] # errors[2]

\* the breadcrumb of a mapping entry's value and of a sequence's element
ChildCrumb(crumb, key) ==
  IF crumb = "" THEN PyStr(key) ELSE crumb \o "." \o PyStr(key)

ItemCrumb(crumb, i) == crumb \o "[" \o ToString(i) \o "]"

RECURSIVE DepthFirst(_, _)
RECURSIVE DepthFirstFrom(_, _, _)

\* the structural findings of the children i, i+1, ... of a node, in order
DepthFirstFrom(node, crumb, i) ==
  IF i > Len(node.items) THEN <<>>
  ELSE IF node.ty = "dict"
       THEN (IF node.keys[i].ty # "str"
             THEN <<[kind |-> "key_not_string", key |-> PyStr(node.keys[i]),
                     path |-> crumb]>>
             ELSE <<>>)
            \o (IF node.items[i].ty = "none"
                THEN <<[kind |-> "value_empty", key |-> PyStr(node.keys[i]),
                        path |-> crumb]>>
                ELSE <<>>)
            \o DepthFirst(node.items[i], ChildCrumb(crumb, node.keys[i]))
            \o DepthFirstFrom(node, crumb, i + 1)
       ELSE DepthFirst(node.items[i], ItemCrumb(crumb, i - 1))
            \o DepthFirstFrom(node, crumb, i + 1)

\* what section 4.2 asks of the tree below node, whose breadcrumb is crumb: the
\* findings in depth-first, key-insertion order, each with its parent's breadcrumb
DepthFirst(node, crumb) ==
  IF node.ty \in {"dict", "list"} THEN DepthFirstFrom(node, crumb, 1) ELSE <<>>

StructuralWarnings == OfKinds(warnings, StructuralKinds)

IndentationWarnings == OfKinds(warnings, {"indentation"})

\* C7: every structural warning shows the breadcrumb of its parent mapping from
\* the root, whatever the keys on the way are.
C7_FullBreadcrumb ==
  Scanned =>
    [i \in 1..Len(StructuralWarnings) |-> StructuralWarnings[i].path]
      = [i \in 1..Len(DepthFirst(content.parse.data, "")) |->
           DepthFirst(content.parse.data, "")[i].path]

RECURSIVE AllEntries(_)
RECURSIVE AllEntriesFrom(_, _)

AllEntriesFrom(node, i) ==
  IF i > Len(node.items) THEN <<>>
  ELSE AllEntries(node.items[i]) \o AllEntriesFrom(node, i + 1)

\* every key/value pair of every mapping of the tree, the root's pairs last
AllEntries(node) ==
  AllEntriesFrom(node, 1)
  \o (IF node.ty = "dict"
      THEN [i \in 1..Len(node.keys) |-> [key |-> node.keys[i], value |-> node.items[i]]]
      ELSE <<>>)

KeyTexts == {PyStr(k) : k \in Keys}

HowMany(seq, Test(_)) == Cardinality({i \in 1..Len(seq) : Test(seq[i])})

\* C8: after a parse to a tree the warnings hold one non-string-key warning per
\* entry whose key is no string and one empty-value warning per entry whose
\* value is None, at every depth; nothing else but the indentation scanner's
\* warnings; and errors holds nothing.
C8_OneWarningPerEntry ==
  Scanned =>
    LET entries == AllEntries(content.parse.data)
    IN /\ errors = <<>>
       /\ \A i \in 1..Len(warnings) :
            /\ warnings[i].kind \in StructuralKinds \cup {"indentation"}
            /\ warnings[i].kind \in StructuralKinds => warnings[i].key \in KeyTexts
       /\ \A k \in KeyTexts :
            /\ LET Warned(w) == w.kind = "key_not_string" /\ w.key = k
                   NoString(e) == e.key.ty # "str" /\ PyStr(e.key) = k
               IN HowMany(warnings, Warned) = HowMany(entries, NoString)
            /\ LET Warned(w) == w.kind = "value_empty" /\ w.key = k
                   NoValue(e) == e.value.ty = "none" /\ PyStr(e.key) = k
               IN HowMany(warnings, Warned) = HowMany(entries, NoValue)

\* a mapping inside a sequence inside an entry that is itself warned about
C8_Witness ==
  /\ op = "validate_content"
  /\ content.parse.data =
       DictV(<<IntV(0)>>, <<ListV(<<DictV(<<StrV("a")>>, <<NoneV>>)>>)>>)
  /\ Len(StructuralWarnings) = 2

\* C9: the structural warnings come before the indentation warnings; the
\* structural ones in depth-first, key-insertion order, an entry's key warning
\* before its value warning; the indentation ones by increasing line.
C9_WarningOrder ==
  Scanned =>
    /\ warnings = StructuralWarnings \o IndentationWarnings
    /\ [i \in 1..Len(StructuralWarnings) |->
          <<StructuralWarnings[i].kind, StructuralWarnings[i].key>>]
         = [i \in 1..Len(DepthFirst(content.parse.data, "")) |->
              <<DepthFirst(content.parse.data, "")[i].kind,
                DepthFirst(content.parse.data, "")[i].key>>]
    /\ \A i \in 1..Len(IndentationWarnings) : \A j \in 1..Len(IndentationWarnings) :
         i < j => IndentationWarnings[i].line < IndentationWarnings[j].line

\* {0: {a: None}, a: None} in the sample text: both warnings of the first entry
\* and its subtree's, the second entry's, then the indentation warning
C9_Witness ==
  /\ op = "validate_content"
  /\ content.parse.data =
       DictV(<<IntV(0), StrV("a")>>, <<DictV(<<StrV("a")>>, <<NoneV>>), NoneV>>)
  /\ Len(warnings) = 4
  /\ warnings[1].kind = "key_not_string"
  /\ warnings[4].kind = "indentation"

\* the number of lines of a text, and its i-th line (1-based): the characters
\* that are no newline and have i - 1 newlines before them
NumLines(text) == Cardinality({p \in 1..Len(text) : text[p] = "\n"}) + 1

LineOf(text, i) ==
  LET at == {p \in 1..Len(text) :
               /\ text[p] # "\n"
               /\ Cardinality({q \in 1..(p - 1) : text[q] = "\n"}) = i - 1}
  IN IF at = {} THEN <<>>
     ELSE SubSeq(text, CHOOSE p \in at : \A q \in at : p <= q,
                       CHOOSE p \in at : \A q \in at : q <= p)

\* the count of leading whitespace characters of a line
Leading(line) ==
  Cardinality({k \in 1..Len(line) : \A j \in 1..k : IsSpace(line[j])})

Blank(line) == \A j \in 1..Len(line) : IsSpace(line[j])

Comment(line) == ~Blank(line) /\ line[Leading(line) + 1] = "#"

\* a line that is not blank, no comment and indented
Indented(line) == ~Blank(line) /\ ~Comment(line) /\ Leading(line) > 0

\* the lines section 4.3 warns about: indented, after the first indented line,
\* and not indented by a multiple of that line's indentation
InconsistentLines(text) ==
  {i \in 1..NumLines(text) :
     /\ Indented(LineOf(text, i))
     /\ \E u \in 1..(i - 1) :
          /\ Indented(LineOf(text, u))
          /\ \A v \in 1..(u - 1) : ~Indented(LineOf(text, v))
          /\ Leading(LineOf(text, i)) % Leading(LineOf(text, u)) # 0}

\* C10: the indentation scanner warns about line i exactly when the line is
\* not blank, no comment, indented, and not indented by a multiple of the
\* first such line's indentation; once per line at most.
C10_IndentationWarnings ==
  Scanned =>
    /\ \A k \in 1..Len(IndentationWarnings) :
         IndentationWarnings[k].line \in 1..NumLines(content.text)
    /\ \A i \in 1..NumLines(content.text) :
         LET OfLine(w) == w.kind = "indentation" /\ w.line = i
         IN HowMany(warnings, OfLine)
              = IF i \in InconsistentLines(content.text) THEN 1 ELSE 0

\* an indented comment, then the line that sets the unit to two, then a line
\* indented by one
C10_Witness ==
  /\ op = "validate_content"
  /\ content.text = JoinLines(<<<<" ", "#">>, <<" ", " ", "a">>, <<" ", "a">>>>)
  /\ IndentationWarnings = <<IndentationWarning(3)>>

====
